---- MODULE Spec2Model ----
(***************************************************************************)
(* Model of src/utils/xlsx-importer.py: the script reads a spreadsheet     *)
(* with pandas, walks its rows in order, builds one event record per row   *)
(* (parsing the metadata cell as JSON) and inserts it into the `events`    *)
(* table with one blocking call per row.  An uncaught exception ends the   *)
(* process with a non-zero exit status.                                    *)
(***************************************************************************)
EXTENDS Integers, Sequences, FiniteSets, TLC

\* Largest number of data rows of a sheet.
MaxRows == 3

----------------------------------------------------------------------------
\* Values.  Every value is a record whose `kind` tells what it is, the way a
\* Python object carries its type.

\* All values share one record shape, so that any two can be compared.
Value(k) == [kind |-> k, text |-> "", num |-> 0, flag |-> FALSE, chars |-> <<>>, items |-> <<>>]

PyStr(s) == [Value("str") EXCEPT !.text = s]
PyInt(n) == [Value("int") EXCEPT !.num = n]
\* An empty spreadsheet cell as the file holds it.
Blank == Value("blank")
\* pandas' missing value (float nan).
NaN == Value("nan")
\* Python's None, as json.loads returns it for the text null.
None == Value("none")
Bool(b) == [Value("bool") EXCEPT !.flag = b]
\* A Python dict with string keys: a function from keys (character
\* sequences) to values.
Dict(f) == [Value("dict") EXCEPT !.items = f]
\* A string that json.loads read, by its characters.
JStr(cs) == [Value("jstr") EXCEPT !.chars = cs]

\* The `{}` of line 32.
EmptyDict == Dict(<<>>)

----------------------------------------------------------------------------
\* The sheet: its header (the column names) and its data rows, each row a
\* function from the header to the cell values the file holds.

RequiredColumns == {"recording_id", "event_type_id", "timestamp", "offset_ms"}
AllColumns == RequiredColumns \cup {"metadata"}

\* Texts a metadata cell holds in the model.
TextObjA == "{\"a\":1}"
TextNested == "{\"a\": {\"b\": \"x\"}, \"n\": null}"
TextBad == "{bad json"
TextNull == "null"
TextEmpty == ""

\* The characters of a text (TLA+ strings cannot be indexed).
Chars(t) ==
    CASE t = TextObjA -> <<"{", "\"", "a", "\"", ":", "1", "}">>
      [] t = TextNested -> <<"{", "\"", "a", "\"", ":", " ", "{", "\"", "b", "\"", ":", " ",
                             "\"", "x", "\"", "}", ",", " ", "\"", "n", "\"", ":", " ",
                             "n", "u", "l", "l", "}">>
      [] t = TextBad -> <<"{", "b", "a", "d", " ", "j", "s", "o", "n">>
      [] t = TextNull -> <<"n", "u", "l", "l">>
      [] t = TextEmpty -> <<>>

MetadataCells == {Blank, PyStr(TextEmpty), PyStr(TextObjA), PyStr(TextNested), PyStr(TextBad),
                  PyStr(TextNull), PyInt(5)}

CellsOf(c) ==
    CASE c = "recording_id" -> {PyStr("recA")}
      [] c = "event_type_id" -> {PyInt(7)}
      [] c = "timestamp" -> {PyStr("2024-01-01T00:00:00Z"), Blank}
      [] c = "offset_ms" -> {PyInt(1500)}
      [] c = "metadata" -> MetadataCells

\* Headers of the model: at most one required column is missing.
Headers == {h \in SUBSET AllColumns : Cardinality(RequiredColumns \ h) <= 1}

\* The rows of a sheet that has all five columns: every metadata cell beside
\* a timestamp, and two of them beside an empty timestamp cell.
FullRows == {r \in [recording_id : CellsOf("recording_id"),
                    event_type_id : CellsOf("event_type_id"),
                    timestamp : CellsOf("timestamp"), offset_ms : CellsOf("offset_ms"),
                    metadata : CellsOf("metadata")] :
                r.timestamp = Blank => r.metadata \in {Blank, PyStr(TextObjA)}}

\* The rows a sheet with header h may hold.
SheetRows(h) == {[c \in h |-> r[c]] : r \in FullRows}

\* What args.xlsx_path may name: a spreadsheet with header h and the data
\* rows rs, or nothing readable.
Sheet(h, rs) == [exists |-> TRUE, columns |-> h, rows |-> rs]
NoFile == [exists |-> FALSE, columns |-> {}, rows |-> <<>>]

----------------------------------------------------------------------------
\* pd.read_excel (line 23) with its defaults.  The reader hands an empty cell
\* over as the empty text, and the parser then turns every text of its
\* default NA set into the missing value; `null` is one of them.

NaTexts == {TextEmpty, TextNull}

ConvertCell(cell) == IF cell = Blank THEN PyStr(TextEmpty) ELSE cell

NaConvert(v) == IF v.kind = "str" /\ v.text \in NaTexts THEN NaN ELSE v

ReadCell(cell) == NaConvert(ConvertCell(cell))

read_excel(f) ==
    [columns |-> f.columns,
     rows |-> [i \in 1..Len(f.rows) |-> [c \in f.columns |-> ReadCell(f.rows[i][c])]]]

\* pd.notna of a scalar.
notna(v) == v.kind # "nan"

----------------------------------------------------------------------------
\* json.loads on a text: the scanner of Python's json module for objects,
\* strings without escapes, non-negative integers and the three literals.
\* A scan yields [ok, val, end]: the value and the index after it.

Fail == [ok |-> FALSE, val |-> None, end |-> 0]
Ok(v, e) == [ok |-> TRUE, val |-> v, end |-> e]

At(s, i) == IF i >= 1 /\ i <= Len(s) THEN s[i] ELSE "EOF"

Digits == {"0", "1", "2", "3", "4", "5", "6", "7", "8", "9"}
DigitVal(d) ==
    CASE d = "0" -> 0 [] d = "1" -> 1 [] d = "2" -> 2 [] d = "3" -> 3 [] d = "4" -> 4
      [] d = "5" -> 5 [] d = "6" -> 6 [] d = "7" -> 7 [] d = "8" -> 8 [] d = "9" -> 9

RECURSIVE SkipWs(_, _)
SkipWs(s, i) == IF At(s, i) = " " THEN SkipWs(s, i + 1) ELSE i

\* Index of the quote closing the string whose first character is at i; 0
\* when the string is not terminated.
RECURSIVE StrEnd(_, _)
StrEnd(s, i) ==
    IF i > Len(s) THEN 0 ELSE IF s[i] = "\"" THEN i ELSE StrEnd(s, i + 1)

\* s[i] is the opening quote.
ScanString(s, i) ==
    LET e == StrEnd(s, i + 1)
    IN  IF e = 0 THEN Fail ELSE Ok(JStr(SubSeq(s, i + 1, e - 1)), e + 1)

RECURSIVE NumEnd(_, _)
NumEnd(s, i) == IF At(s, i) \in Digits THEN NumEnd(s, i + 1) ELSE i

RECURSIVE NumVal(_, _, _)
NumVal(s, i, e) ==
    IF e < i THEN 0 ELSE NumVal(s, i, e - 1) * 10 + DigitVal(s[e])

\* s[i] is a digit; a leading 0 is a number of its own.
ScanNumber(s, i) ==
    LET e == IF s[i] = "0" THEN i + 1 ELSE NumEnd(s, i)
    IN  Ok(PyInt(NumVal(s, i, e - 1)), e)

Literal(s, i, word, v) ==
    IF i + Len(word) - 1 <= Len(s) /\ SubSeq(s, i, i + Len(word) - 1) = word
    THEN Ok(v, i + Len(word)) ELSE Fail

RECURSIVE ScanOnce(_, _)
RECURSIVE ScanMembers(_, _, _)

\* i is the index of the quote opening the next key; acc holds the members
\* read so far (a later key overrides an earlier equal one).
ScanMembers(s, i, acc) ==
    LET key == ScanString(s, i)
        colon == SkipWs(s, key.end)
        value == ScanOnce(s, SkipWs(s, colon + 1))
        after == SkipWs(s, value.end)
        members == (key.val.chars :> value.val) @@ acc
        next == SkipWs(s, after + 1)
    IN  IF ~key.ok \/ At(s, colon) # ":" THEN Fail
        ELSE IF ~value.ok THEN Fail
        ELSE IF At(s, after) = "}" THEN Ok(Dict(members), after + 1)
        ELSE IF At(s, after) = "," /\ At(s, next) = "\"" THEN ScanMembers(s, next, members)
        ELSE Fail

\* s[i] is the opening brace.
ScanObject(s, i) ==
    LET j == SkipWs(s, i + 1)
    IN  IF At(s, j) = "\"" THEN ScanMembers(s, j, <<>>)
        ELSE IF At(s, j) = "}" THEN Ok(EmptyDict, j + 1)
        ELSE Fail

ScanOnce(s, i) ==
    LET c == At(s, i)
    IN  IF c = "\"" THEN ScanString(s, i)
        ELSE IF c = "{" THEN ScanObject(s, i)
        ELSE IF c = "n" THEN Literal(s, i, <<"n", "u", "l", "l">>, None)
        ELSE IF c = "t" THEN Literal(s, i, <<"t", "r", "u", "e">>, Bool(TRUE))
        ELSE IF c = "f" THEN Literal(s, i, <<"f", "a", "l", "s", "e">>, Bool(FALSE))
        ELSE IF c \in Digits THEN ScanNumber(s, i)
        ELSE Fail

\* JSONDecoder.decode: one value, white space around it, nothing after it.
Decode(s) ==
    LET r == ScanOnce(s, SkipWs(s, 1))
    IN  IF r.ok /\ SkipWs(s, r.end) = Len(s) + 1 THEN r ELSE Fail

\* json.loads(v): [raised, val].  A value that is no text raises TypeError,
\* a text that is no JSON document raises JSONDecodeError.
Loaded(v) == [raised |-> "none", val |-> v]
Raised(e) == [raised |-> e, val |-> None]

\* The parse of each text of the model, computed once.
Texts == {TextObjA, TextNested, TextBad, TextNull, TextEmpty}
Decoded == [t \in Texts |-> Decode(Chars(t))]

\* Variant: a value that cannot be parsed yields the empty object.
json_loads_Lenient(v) ==
    IF v.kind # "str" THEN Loaded(EmptyDict)
    ELSE LET r == Decoded[v.text]
         IN  IF r.ok THEN Loaded(r.val) ELSE Loaded(EmptyDict)

json_loads(v) ==
    IF v.kind # "str" THEN Raised("TypeError")
    ELSE LET r == Decoded[v.text]
         IN  IF r.ok THEN Loaded(r.val) ELSE Raised("JSONDecodeError")
----------------------------------------------------------------------------
\* The record of lines 27-33.  Python evaluates the entries of the dict
\* display in order, so a missing required column raises KeyError before the
\* metadata cell is looked at.

\* Variant: line 32 without the pd.notna test.
HasMetadata_NoNaCheck(row) == "metadata" \in DOMAIN row

\* The condition of line 32: `"metadata" in row` asks for the label, pd.notna
\* for the cell.
HasMetadata(row) == "metadata" \in DOMAIN row /\ notna(row["metadata"])

\* Variant: line 32 passes the cell on without parsing it.
Metadata_Raw(row) ==
    IF "metadata" \in DOMAIN row /\ notna(row["metadata"])
    THEN Loaded(row["metadata"]) ELSE Loaded(EmptyDict)

\* Variant: line 32 without the `"metadata" in row` test.
Metadata_NoColumnCheck(row) ==
    IF "metadata" \notin DOMAIN row THEN Raised("KeyError")
    ELSE IF notna(row["metadata"]) THEN json_loads(row["metadata"])
    ELSE Loaded(EmptyDict)

\* The conditional expression of line 32.
Metadata(row) == IF HasMetadata(row) THEN json_loads(row["metadata"]) ELSE Loaded(EmptyDict)

\* Variant: line 30 reads the wrong column.
EventData_WrongKey(row) ==
    IF \E c \in RequiredColumns : c \notin DOMAIN row THEN Raised("KeyError")
    ELSE LET m == IF "metadata" \in DOMAIN row /\ notna(row["metadata"])
                  THEN json_loads(row["metadata"]) ELSE Loaded(EmptyDict)
         IN  IF m.raised # "none" THEN Raised(m.raised)
             ELSE Loaded([recording_id |-> row["recording_id"],
                          event_type_id |-> row["event_type_id"],
                          timestamp |-> row["recording_id"],
                          offset_ms |-> row["offset_ms"],
                          metadata |-> m.val])

\* Variant: the columns are read with row.get, which yields None for a
\* column the sheet lacks.
EventData_Get(row) ==
    LET get(c) == IF c \in DOMAIN row THEN row[c] ELSE None
        m == IF "metadata" \in DOMAIN row /\ notna(row["metadata"])
             THEN json_loads(row["metadata"]) ELSE Loaded(EmptyDict)
    IN  IF m.raised # "none" THEN Raised(m.raised)
        ELSE Loaded([recording_id |-> get("recording_id"),
                     event_type_id |-> get("event_type_id"),
                     timestamp |-> get("timestamp"),
                     offset_ms |-> get("offset_ms"),
                     metadata |-> m.val])

EventData(row) ==
    IF \E c \in RequiredColumns : c \notin DOMAIN row THEN Raised("KeyError")
    ELSE LET m == Metadata(row)
         IN  IF m.raised # "none" THEN Raised(m.raised)
             ELSE Loaded([recording_id |-> row["recording_id"],
                          event_type_id |-> row["event_type_id"],
                          timestamp |-> row["timestamp"],
                          offset_ms |-> row["offset_ms"],
                          metadata |-> m.val])

\* event_data before the loop binds it.
Unbound == [recording_id |-> None, event_type_id |-> None, timestamp |-> None,
            offset_ms |-> None, metadata |-> None]

\* What supabase ... .execute() raises when the request fails.
InsertErrors == {"APIError", "ConnectError"}
ParseErrors == {"JSONDecodeError", "TypeError"}

----------------------------------------------------------------------------
\* State.  file: what args.xlsx_path names; df: the DataFrame; pc: the line
\* the script is at; idx: the position of the row the loop holds (0 before
\* the first); event_data: the record of the current row; requests: the
\* insert calls issued, in order; events: the rows of the remote table;
\* error: the exception that ended the run; exitStatus: <<>> while running,
\* then the exit status.  History: issuedFor[k] is the row position request
\* k was issued for, parsed the positions json.loads was called for,
\* outstanding the number of requests whose execute() has not returned,
\* built the records the loop has built, each with its row position.
VARIABLES file, df, pc, idx, event_data, requests, events, error, exitStatus,
          issuedFor, parsed, outstanding, built

vars == <<file, df, pc, idx, event_data, requests, events, error, exitStatus,
          issuedFor, parsed, outstanding, built>>

Init ==
    /\ \/ file = NoFile
       \/ \E h \in Headers, n \in 0..MaxRows :
            \E rs \in [1..n -> SheetRows(h)] : file = Sheet(h, rs)
    /\ df = read_excel(NoFile)
    /\ pc = "read_excel"
    /\ idx = 0
    /\ event_data = Unbound
    /\ requests = <<>>
    /\ events = <<>>
    /\ error = "none"
    /\ exitStatus = <<>>
    /\ issuedFor = <<>>
    /\ parsed = {}
    /\ outstanding = 0
    /\ built = <<>>

\* Variant: the exception is caught at the top and the process ends with
\* status 0.
Raise_Swallowed(e) ==
    /\ error' = e
    /\ pc' = "exit"
    /\ exitStatus' = <<0>>

\* An exception nothing catches: the interpreter ends with status 1.
Raise(e) ==
    /\ error' = e
    /\ pc' = "exit"
    /\ exitStatus' = <<1>>

\* Line 23: df = pd.read_excel(args.xlsx_path).
ReadExcel ==
    /\ pc = "read_excel"
    /\ IF file.exists
       THEN /\ df' = read_excel(file)
            /\ pc' = "for"
            /\ UNCHANGED <<error, exitStatus>>
       ELSE /\ Raise("FileNotFoundError")
            /\ UNCHANGED df
    /\ UNCHANGED <<file, idx, event_data, requests, events, issuedFor, parsed, outstanding, built>>

\* Variant: the loop walks the rows from the last to the first.
ForRow_Reversed ==
    /\ pc = "for"
    /\ IF (idx = 0 /\ Len(df.rows) > 0) \/ idx > 1
       THEN /\ idx' = IF idx = 0 THEN Len(df.rows) ELSE idx - 1
            /\ pc' = "event_data"
            /\ UNCHANGED exitStatus
       ELSE /\ pc' = "exit"
            /\ exitStatus' = <<0>>
            /\ UNCHANGED idx
    /\ UNCHANGED <<file, df, event_data, requests, events, error, issuedFor, parsed, outstanding, built>>

\* Line 26: the for statement takes the next row of df.iterrows(), or ends
\* the loop and with it the script (status 0).
ForRow ==
    /\ pc = "for"
    /\ IF idx < Len(df.rows)
       THEN /\ idx' = idx + 1
            /\ pc' = "event_data"
            /\ UNCHANGED exitStatus
       ELSE /\ pc' = "exit"
            /\ exitStatus' = <<0>>
            /\ UNCHANGED idx
    /\ UNCHANGED <<file, df, event_data, requests, events, error, issuedFor, parsed, outstanding, built>>

\* Lines 27-33: event_data = {...}.
BuildEventData ==
    /\ pc = "event_data"
    /\ LET row == df.rows[idx]
           r == EventData(row)
       IN  /\ parsed' = IF (\A c \in RequiredColumns : c \in DOMAIN row) /\ HasMetadata(row)
                        THEN parsed \cup {idx} ELSE parsed
           /\ IF r.raised = "none"
              THEN /\ event_data' = r.val
                   /\ built' = Append(built, [row |-> idx, record |-> r.val])
                   /\ pc' = "insert"
                   /\ UNCHANGED <<error, exitStatus>>
              ELSE /\ Raise(r.raised)
                   /\ UNCHANGED <<event_data, built>>
    /\ UNCHANGED <<file, df, idx, requests, events, issuedFor, outstanding>>

\* Variant: the request is sent and the loop goes on without waiting for it.
Insert_NoAwait ==
    /\ pc = "insert"
    /\ requests' = Append(requests, event_data)
    /\ issuedFor' = Append(issuedFor, idx)
    /\ outstanding' = outstanding + 1
    /\ pc' = "for"
    /\ UNCHANGED <<file, df, idx, event_data, events, error, exitStatus, parsed, built>>

\* Line 34: supabase.table("events").insert(event_data).execute() sends the
\* request and blocks.
Insert ==
    /\ pc = "insert"
    /\ requests' = Append(requests, event_data)
    /\ issuedFor' = Append(issuedFor, idx)
    /\ outstanding' = outstanding + 1
    /\ pc' = "execute"
    /\ UNCHANGED <<file, df, idx, event_data, events, error, exitStatus, parsed, built>>

\* Line 34: execute() returns; the backend has stored the record.
ExecuteReturns ==
    /\ pc = "execute"
    /\ events' = Append(events, requests[Len(requests)])
    /\ outstanding' = outstanding - 1
    /\ pc' = "for"
    /\ UNCHANGED <<file, df, idx, event_data, requests, error, exitStatus, issuedFor, parsed, built>>

\* Variant: the failure is caught and the loop goes on with the next row.
ExecuteRaises_Continues ==
    /\ pc = "execute"
    /\ \E e \in InsertErrors : error' = e
    /\ pc' = "for"
    /\ outstanding' = outstanding - 1
    /\ UNCHANGED <<file, df, idx, event_data, requests, events, exitStatus, issuedFor, parsed, built>>

\* Line 34: execute() raises (the backend refused the record, or could not
\* be reached); nothing catches it.
ExecuteRaises ==
    /\ pc = "execute"
    /\ \E e \in InsertErrors : Raise(e)
    /\ outstanding' = outstanding - 1
    /\ UNCHANGED <<file, df, idx, event_data, requests, events, issuedFor, parsed, built>>

Next ==
    \/ ReadExcel
    \/ ForRow
    \/ BuildEventData
    \/ Insert
    \/ ExecuteReturns
    \/ ExecuteRaises

Spec == Init /\ [][Next]_vars

\* The interpreter runs the script to its end: a step that can be taken is
\* taken.
FairSpec == Spec /\ WF_vars(Next)

----------------------------------------------------------------------------
\* What the properties below speak of, stated on the sheet as the file holds
\* it and not through the operators above.

N == Len(file.rows)
HasRequired == RequiredColumns \subseteq file.columns
HasMetadataColumn == "metadata" \in file.columns

\* Metadata cells that are null or empty (the text null reads as missing).
NullCells == {Blank, PyStr(TextEmpty), PyStr(TextNull)}
\* Non-null metadata cells holding valid JSON text.
ValidJsonCells == {PyStr(TextObjA), PyStr(TextNested)}
\* Non-null metadata cells that are not valid JSON text.
MalformedCells == {PyStr(TextBad), PyInt(5)}

\* The structured value each metadata cell stands for.
ExpectedMetadata(cell) ==
    CASE cell = PyStr(TextObjA) -> Dict(<<"a">> :> PyInt(1))
      [] cell = PyStr(TextNested) ->
            Dict((<<"a">> :> Dict(<<"b">> :> JStr(<<"x">>))) @@ (<<"n">> :> None))
      [] OTHER -> EmptyDict

\* The value a scalar cell reads as: itself, an empty cell as the missing
\* value.
LiteralValue(cell) == IF cell = Blank THEN NaN ELSE cell

MetadataCell(i) == file.rows[i]["metadata"]

\* Row i's metadata is absent, null or valid JSON.
MetadataFine(i) == HasMetadataColumn => MetadataCell(i) \in NullCells \cup ValidJsonCells

\* The record row i stands for (rows with the required columns and fine
\* metadata).
ExpectedRecord(i) ==
    [recording_id |-> LiteralValue(file.rows[i]["recording_id"]),
     event_type_id |-> LiteralValue(file.rows[i]["event_type_id"]),
     timestamp |-> LiteralValue(file.rows[i]["timestamp"]),
     offset_ms |-> LiteralValue(file.rows[i]["offset_ms"]),
     metadata |-> IF HasMetadataColumn THEN ExpectedMetadata(MetadataCell(i)) ELSE EmptyDict]

Calls == 1..Len(requests)

\* Rows whose non-null metadata cell is not valid JSON, and the first one.
BadRows == {i \in 1..N : HasMetadataColumn /\ MetadataCell(i) \in MalformedCells}
FirstBad == CHOOSE k \in BadRows : \A j \in BadRows : k <= j

Exited == pc = "exit"

C2_RowOrder ==
    /\ Len(issuedFor) = Len(requests)
    /\ Len(built) >= Len(requests)
    /\ \A k \in Calls :
         /\ issuedFor[k] = k
         /\ built[k].row = k
         /\ built[k].record = requests[k]
    /\ \A j, k \in Calls : j < k => issuedFor[j] < issuedFor[k]

C2_Witness ==
    /\ Len(requests) = 3
    /\ requests[1] # requests[2] /\ requests[2] # requests[3]

\* C3: a request for a row whose metadata cell is non-null valid JSON text
\* carries the value that text parses to, which is neither the text nor the
\* empty object; such a cell never raises a parse error.
C3_MetadataParsed ==
    (file.exists /\ HasMetadataColumn) =>
        /\ \A k \in Calls :
             MetadataCell(issuedFor[k]) \in ValidJsonCells =>
                /\ requests[k].metadata = ExpectedMetadata(MetadataCell(issuedFor[k]))
                /\ requests[k].metadata # EmptyDict
                /\ requests[k].metadata.kind = "dict"
        /\ (Exited /\ error \in ParseErrors) => MetadataCell(idx) \notin ValidJsonCells

C3_Witness ==
    /\ file.exists /\ HasMetadataColumn
    /\ \E j, k \in Calls :
         /\ MetadataCell(issuedFor[j]) = PyStr(TextObjA)
         /\ requests[j].metadata.items[<<"a">>] = PyInt(1)
         /\ MetadataCell(issuedFor[k]) = PyStr(TextNested)

\* C4: on a sheet without a metadata column every request carries the empty
\* object, nothing is parsed, and the missing column raises nothing.
C4_NoMetadataColumn ==
    (file.exists /\ ~HasMetadataColumn) =>
        /\ \A k \in Calls : requests[k].metadata = EmptyDict
        /\ parsed = {}
        /\ error \notin ParseErrors
        /\ HasRequired => error \notin {"KeyError"}
        /\ (HasRequired /\ Exited /\ error = "none") => Len(requests) = N

C4_Witness ==
    /\ file.exists /\ ~HasMetadataColumn /\ HasRequired
    /\ Exited /\ exitStatus = <<0>>
    /\ Len(requests) = 3

\* C5: a request for a row whose metadata cell is null or empty carries the
\* empty object, json.loads was not called for that row, and such a row
\* never ends the run with a parse error.
C5_NullMetadata ==
    (file.exists /\ HasMetadataColumn) =>
        /\ \A k \in Calls :
             MetadataCell(issuedFor[k]) \in NullCells =>
                requests[k].metadata = EmptyDict /\ issuedFor[k] \notin parsed
        /\ (Exited /\ error \in ParseErrors) => MetadataCell(idx) \notin NullCells
        /\ (pc \in {"insert", "execute"} /\ MetadataCell(idx) \in NullCells) =>
                event_data.metadata = EmptyDict

C5_Witness ==
    /\ file.exists /\ HasMetadataColumn
    /\ \E j, k \in Calls :
         /\ MetadataCell(issuedFor[j]) = Blank
         /\ MetadataCell(issuedFor[k]) = PyStr(TextEmpty)
         /\ requests[j].metadata = EmptyDict /\ requests[k].metadata = EmptyDict

\* C6: when row k is the first row whose non-null metadata is not valid
\* JSON, no insert call is ever issued for row k or a later row; and a run
\* that reaches row k (the required columns are there, no earlier insert
\* failed) ends there with a parse error and a non-zero status, the inserts
\* of rows 1..k-1 issued and stored.
C6_MalformedAborts ==
    (file.exists /\ BadRows # {}) =>
        /\ \A k \in Calls : issuedFor[k] < FirstBad
        /\ Len(requests) < FirstBad
        /\ (Exited /\ HasRequired /\ error \notin InsertErrors) =>
              /\ error \in ParseErrors
              /\ exitStatus = <<1>>
              /\ idx = FirstBad
              /\ Len(requests) = FirstBad - 1
              /\ events = requests
              /\ \A i \in 1..(FirstBad - 1) : events[i] = ExpectedRecord(i)

C6_Witness ==
    /\ file.exists /\ HasRequired /\ N = 3
    /\ BadRows = {2, 3} /\ MetadataCell(2) = PyStr(TextBad)
    /\ MetadataCell(3) = PyInt(5)
    /\ Exited /\ error = "JSONDecodeError"
    /\ Len(events) = 1

\* C7: when the insert call for row k raises, the run is over with a
\* non-zero status: the call was issued once and is the last one, and the
\* table holds exactly the records of rows 1..k-1.
C7_InsertFailureAborts ==
    error \in InsertErrors =>
        /\ Exited /\ exitStatus = <<1>>
        /\ ~ENABLED Next
        /\ Len(requests) = idx
        /\ Cardinality({k \in Calls : issuedFor[k] = idx}) = 1
        /\ \A k \in Calls : issuedFor[k] <= idx
        /\ Len(events) = idx - 1
        /\ \A i \in 1..(idx - 1) : events[i] = requests[i] /\ events[i] = ExpectedRecord(i)
        /\ outstanding = 0

C7_Witness ==
    /\ error \in InsertErrors
    /\ idx = 2 /\ N = 3
    /\ Len(events) = 1 /\ Len(requests) = 2

\* C8 as stated: on a sheet lacking a required column, whatever its number
\* of rows, the run issues no insert call and ends with a key-lookup error.
C8_Original ==
    (file.exists /\ ~HasRequired) =>
        /\ requests = <<>>
        /\ Exited => (error = "KeyError" /\ exitStatus = <<1>>)

\* C8, amended: on a sheet lacking a required column the run issues no
\* insert call; with at least one data row it ends at the first row with a
\* key-lookup error, before the metadata cell is looked at, and with no data
\* row it ends with status 0 and no error.
C8_MissingColumn ==
    (file.exists /\ ~HasRequired) =>
        /\ requests = <<>>
        /\ parsed = {}
        /\ Exited =>
              IF N >= 1
              THEN error = "KeyError" /\ exitStatus = <<1>> /\ idx = 1
              ELSE error = "none" /\ exitStatus = <<0>>

C8_Witness ==
    /\ file.exists /\ ~HasRequired /\ HasMetadataColumn
    /\ N = 2 /\ MetadataCell(1) = PyStr(TextBad)
    /\ Exited /\ error = "KeyError"

\* Every row was transformed and its insert succeeded.
AllRowsInserted ==
    /\ file.exists
    /\ idx = N
    /\ Len(built) = N /\ Len(requests) = N /\ Len(events) = N
    /\ \A i \in 1..N : built[i].row = i /\ events[i] = built[i].record

Failures == {"FileNotFoundError", "KeyError"} \cup ParseErrors \cup InsertErrors

\* The number of steps a run has left at most: four per row still to come
\* (take it, build its record, send it, wait), and the step that ends the
\* loop.
StepsLeft ==
    IF Exited THEN 0
    ELSE (N - idx) * 4 + (CASE pc = "read_excel" -> 2
                            [] pc = "for" -> 1
                            [] pc = "event_data" -> 4
                            [] pc = "insert" -> 3
                            [] pc = "execute" -> 2)

\* C9: every run ends (it reaches its end; until then it can take a step,
\* and every step brings the end nearer), with status 0 or 1; it ends with 0 exactly
\* when every row was transformed and inserted, and with 1 exactly when a
\* read, parse, key-lookup or insert failure occurred.
C9_ExitStatus ==
    /\ <>Exited
    /\ [](~Exited => ENABLED Next)
    /\ [][StepsLeft' < StepsLeft]_vars
    /\ [](Exited =>
            /\ exitStatus \in {<<0>>, <<1>>}
            /\ exitStatus = <<0>> <=> AllRowsInserted
            /\ exitStatus = <<1>> <=> error \in Failures
            /\ exitStatus = <<0>> <=> error = "none")
    /\ [](~Exited => exitStatus = <<>> /\ error = "none")

C9_Witness ==
    /\ Exited /\ exitStatus = <<1>> /\ error = "TypeError"
    /\ Len(events) = 2

\* C10: the requests issued so far are the records of rows 1, 2, ... in
\* order; at most one request is outstanding, and only while execute()
\* blocks; every request but an outstanding or failed last one is stored;
\* an outstanding request is the record just built for the current row; a
\* row whose record could not be built is never sent.
C10_Prefix ==
    file.exists =>
        /\ Len(requests) <= N
        /\ \A k \in Calls : issuedFor[k] = k /\ requests[k] = ExpectedRecord(k)
        /\ outstanding \in {0, 1}
        /\ outstanding = 1 <=> pc = "execute"
        /\ Len(events) <= Len(requests) /\ Len(requests) <= Len(events) + 1
        /\ \A k \in 1..Len(events) : events[k] = requests[k]
        /\ Len(requests) = Len(events) + 1 => (pc = "execute" \/ error \in InsertErrors)
        /\ pc = "execute" =>
              /\ Len(requests) = idx
              /\ requests[idx] = event_data
              /\ built[Len(built)] = [row |-> idx, record |-> event_data]
        /\ (Exited /\ error \in ParseErrors \cup {"KeyError"}) =>
              \A k \in Calls : issuedFor[k] # idx

C10_Witness ==
    /\ pc = "execute" /\ idx = 3
    /\ Len(events) = 2 /\ outstanding = 1
    /\ HasMetadataColumn
    /\ MetadataCell(3) = PyStr(TextNested)

====
